---------------------------- MODULE Spec2Model ----------------------------
(***************************************************************************)
(* Real-Time Interview Coaching System: the body-language frame pipeline   *)
(* (head pose smoothing, eye-contact classification, attention window,     *)
(* blink accumulation, confidence aggregation, snapshot publication).      *)
(*                                                                         *)
(* The analyzer (small_interview_helper.py) is modelled from the README,   *)
(* which states its constants and its confidence formula, and from the     *)
(* design document, which states the pipeline's steps.  Angles are whole   *)
(* degrees on input; every averaged quantity is an exact rational          *)
(* [num, den] in lowest terms, so that a mean, a threshold comparison or   *)
(* an equality is decided exactly.  Eye aspect ratios are in hundredths.   *)
(***************************************************************************)
EXTENDS Integers, Sequences, FiniteSets, TLC

VARIABLES
    pstate,         \* "Uninitialized" | "Streaming" | "Stopped"
    camera,         \* CameraModel built from a frame's resolution, or None
    yawQ,           \* smoother queue of raw yaw values (oldest first)
    pitchQ,         \* smoother queue of raw pitch values
    rollQ,          \* smoother queue of raw roll values
    smoothed,       \* SmoothedPose: last smoother output, or None
    window,         \* AttentionWindow: EyeContactSample values, oldest first
    blinkCount,     \* blink accumulator: frames flagged as blink
    elapsed,        \* blink accumulator: frames elapsed in the session
    skipped,        \* skipped-frame counter
    snapshot,       \* latest published metrics snapshot, or None
    pc,             \* the pipeline's position within the current frame
    cur,            \* the frame being processed, or None
    work,           \* per-frame values, discarded at the end of the tick
    stopRequested,  \* a stop signal has been raised by the caller
    observed,       \* what the consumer got at its last read, or None
    readMidFrame,   \* history: that read was taken in the middle of a tick
    accepted,       \* history: number of frames accepted
    completed,      \* history: number of frames whose tick has ended
    samples,        \* history: every sample inserted into the window
    rawPoses,       \* history: every PoseEstimate accepted by the smoother
    metricsLog,     \* history: the metrics of every fully processed frame
    pre,            \* history: smoothed pose, window, counter at acceptance
    lastFrame,      \* history: the frame accepted last, or None
    pure,           \* the last application of a pure function (SpecPure)
    \* ---- the web client (AuthContext, InterviewContext, the three pages)
    currentUser,    \* AuthContext: the signed-in user's uid, or NoUser
    page,           \* the page shown: "home", "speech", "interview", "report"
    sessionId,      \* InterviewContext: id of the current session, or NoSession
    session,        \* InterviewContext: the session document loaded, or None
    isLoading,      \* InterviewContext: a create or a load is in progress
    speechTestResults,  \* InterviewContext: the speech-test result, or None
    interviewAnswers,   \* InterviewContext: the three answers
    store,          \* the backend's session documents; a document's id is its index
    createCalls,    \* history: number of calls of createInterviewSession
    isRecording,    \* SpeechTest: a recording is running
    recordingTime,  \* SpeechTest: seconds counted by the interval timer
    hasRecorded,    \* SpeechTest: an analysis has been shown
    isSaving,       \* SpeechTest: a save is in progress
    metrics,        \* SpeechTest: the metrics shown
    intervalRef,    \* SpeechTest: the interval timer created last, or 0
    liveIntervals,  \* SpeechTest: interval timers created and not cleared
    recordings,     \* history: number of recordings started
    mountBase,      \* history: recordings started before the speech page was mounted
    bgCreate,       \* per recording: the startNewSession begun by startRecording
    analysis,       \* per recording: the timeout callback of stopRecording
    currentQuestion,    \* Interview: index of the question shown (0-based)
    isSubmitting,   \* Interview: the results are being submitted
    finish,         \* Interview: the call of completeSession made by Finish
    interviewSave,  \* the call of saveInterview made last, or NoTask
    isLoadingSession,   \* Report: the page's own loading flag
    effectDue,      \* Report: the effect has to run (mount, or a dependency changed)
    reportLoads     \* Report: ids of the loadSession calls in flight, oldest first

frontVars == <<currentUser, page, sessionId, session, isLoading,
               speechTestResults, interviewAnswers, store, createCalls,
               isRecording, recordingTime, hasRecorded, isSaving, metrics,
               intervalRef, liveIntervals, recordings, mountBase, bgCreate,
               analysis, currentQuestion, isSubmitting, finish, interviewSave,
               isLoadingSession, effectDue, reportLoads>>

vars == <<pstate, camera, yawQ, pitchQ, rollQ, smoothed, window, blinkCount,
          elapsed, skipped, snapshot, pc, cur, work, stopRequested, observed, readMidFrame,
          accepted, completed, samples, rawPoses, metricsLog, pre, lastFrame,
          pure, frontVars>>

None == [none |-> TRUE]

NoPure == [op |-> "none"]

(***************************************************************************)
(* Program constants (README, Key Statistics).                             *)
(***************************************************************************)
pitchThresholdDeg == 20

\* the yaw bound taken from the pitch setting
yawThresholdFromPitch == pitchThresholdDeg

yawThresholdDeg == 25
earBlinkThreshold == 20

\* a smoother that keeps one entry too few
poseSmoothingWindowShort == 5 - 1

\* a smoother that keeps one entry too many
poseSmoothingWindowLong == 5 + 1

poseSmoothingWindow == 5

\* a window that keeps one sample too many
attentionWindowSizePlusOne == 150 + 1

attentionWindowSize == 150
FramesPerSecond == 30
blinkRateBaselinePerMinute == 15

(***************************************************************************)
(* Bounds of the model.                                                    *)
(***************************************************************************)
MaxFrames == 7
MaxLongFrames == 153
FreeFrames == 3
MaxYawDeg == 26
MaxPitchDeg == 21
AngleDen == 10
ScoreDen == 10
MaxPureWindow == 3
MaxEar == 45

(***************************************************************************)
(* Exact rational arithmetic.                                              *)
(***************************************************************************)
Abs(x) == IF x < 0 THEN -x ELSE x

RECURSIVE GCD(_, _)
GCD(a, b) == IF b = 0 THEN a ELSE GCD(b, a % b)

Rat(n, d) ==
    LET g == GCD(Abs(n), d)
    IN  [num |-> IF n < 0 THEN -(Abs(n) \div g) ELSE n \div g, den |-> d \div g]

RatAdd(a, b) == Rat(a.num * b.den + b.num * a.den, a.den * b.den)
RatSub(a, b) == Rat(a.num * b.den - b.num * a.den, a.den * b.den)
RatDivInt(a, k) == Rat(a.num, a.den * k)
RatLe(a, b) == a.num * b.den <= b.num * a.den
RatLt(a, b) == a.num * b.den < b.num * a.den
RatAbs(a) == [num |-> Abs(a.num), den |-> a.den]
RatInt(k) == [num |-> k, den |-> 1]

RECURSIVE SumSeq(_)
SumSeq(s) == IF s = <<>> THEN 0 ELSE Head(s) + SumSeq(Tail(s))

Mean(s) == Rat(SumSeq(s), Len(s))

LastN(s, n) == IF Len(s) <= n THEN s ELSE SubSeq(s, Len(s) - n + 1, Len(s))

CountTrue(s) == Cardinality({i \in 1..Len(s) : s[i]})


(***************************************************************************)
(* 4.3 Temporal Smoother and the AttentionWindow: fixed-capacity queues.   *)
(***************************************************************************)
PushBounded(q, x, cap) ==
    LET a == Append(q, x)
    IN  IF Len(a) > cap THEN Tail(a) ELSE a

SmoothedOf(yq, pq, rq) ==
    [yaw |-> Mean(yq), pitch |-> Mean(pq), roll |-> Mean(rq)]

(***************************************************************************)
(* 4.4 Gaze Classifier: both bounds inclusive.                             *)
(***************************************************************************)
IsEyeContact(yaw, pitch) ==
    /\ RatLe(RatAbs(yaw), RatInt(yawThresholdDeg))
    /\ RatLe(RatAbs(pitch), RatInt(pitchThresholdDeg))

(***************************************************************************)
(* 4.5 Blink Detector.  earL, earR are in hundredths; the average of the   *)
(* two is below the threshold iff their sum is below twice the threshold.  *)
(* Every frame flagged as blink counts towards the accumulator (a          *)
(* sustained closed eye is "blink active" on each of its frames); the      *)
(* rate is per minute of elapsed frames.                                   *)
(***************************************************************************)
EarAvg(earL, earR) == Rat(earL + earR, 2)

\* an average equal to the threshold counted as a blink
IsBlinkAtThreshold(earL, earR) ==
    RatLe(EarAvg(earL, earR), RatInt(earBlinkThreshold))

IsBlink(earL, earR) == RatLt(EarAvg(earL, earR), RatInt(earBlinkThreshold))

BlinkRate(count, frames) ==
    IF frames = 0 THEN RatInt(0)
    ELSE Rat(count * 60 * FramesPerSecond, frames)

(***************************************************************************)
(* 4.6 Confidence Aggregator.                                              *)
(***************************************************************************)
Clamp01(r) ==
    IF RatLt(r, RatInt(0)) THEN RatInt(0)
    ELSE IF RatLt(RatInt(1), r) THEN RatInt(1) ELSE r

AttentionScore(w) == IF w = <<>> THEN RatInt(0) ELSE Rat(CountTrue(w), Len(w))

\* linear penalty above the baseline, reaching 1 at twice the baseline
NormalizeBlinkRate(rate) ==
    Clamp01(RatDivInt(RatSub(rate, RatInt(blinkRateBaselinePerMinute)),
                      blinkRateBaselinePerMinute))

BlinkScore(rate) == RatSub(RatInt(1), NormalizeBlinkRate(rate))

EmotionScore(label) ==
    IF label \in {"None", "Happy", "Neutral"} THEN RatInt(1) ELSE Rat(1, 2)

ConfidenceOfTwo(a, b, e) == RatDivInt(RatAdd(a, b), 2)

ConfidenceScore(a, b, e) == RatDivInt(RatAdd(RatAdd(a, b), e), 3)


(***************************************************************************)
(* Frames delivered by the landmark detector.  A frame carries its         *)
(* resolution, whether a face was detected, whether its six pose points    *)
(* are degenerate, the angles (degrees) the pose solve yields for it, the  *)
(* two eye aspect ratios (hundredths) and the optional emotion label.      *)
(***************************************************************************)
Emotions == {"None", "Angry", "Disgust", "Fear", "Happy", "Sad", "Surprise", "Neutral"}

Centered ==
    [face |-> TRUE, degenerate |-> FALSE, width |-> 640, height |-> 480,
     yaw |-> 0, pitch |-> 0, roll |-> 0, earL |-> 30, earR |-> 30,
     emotion |-> "None"]

Away ==
    [face |-> TRUE, degenerate |-> FALSE, width |-> 1280, height |-> 720,
     yaw |-> 40, pitch |-> -12, roll |-> 7, earL |-> 15, earR |-> 15,
     emotion |-> "Sad"]

Tilted ==
    [face |-> TRUE, degenerate |-> FALSE, width |-> 640, height |-> 480,
     yaw |-> -25, pitch |-> 20, roll |-> -3, earL |-> 19, earR |-> 21,
     emotion |-> "Happy"]

NoFaceDetected ==
    [face |-> FALSE, degenerate |-> FALSE, width |-> 640, height |-> 480,
     yaw |-> 0, pitch |-> 0, roll |-> 0, earL |-> 0, earR |-> 0,
     emotion |-> "None"]

Degenerate ==
    [face |-> TRUE, degenerate |-> TRUE, width |-> 640, height |-> 480,
     yaw |-> 0, pitch |-> 0, roll |-> 0, earL |-> 30, earR |-> 30,
     emotion |-> "None"]

FrameInputs == {Centered, Away, NoFaceDetected, Degenerate}

LongInputs == {Centered, Away, Tilted, NoFaceDetected}

NoWork == [rotation |-> None, pose |-> None, eye |-> None, blink |-> None,
           metrics |-> None]

CameraFrom(f) == [width |-> f.width, height |-> f.height]

\* 4.1: the solve fails on degenerate points; 6: "no face" is treated alike
SolveFails(f) == ~f.face \/ f.degenerate

(***************************************************************************)
(* 4.7 Frame Pipeline.                                                     *)
(***************************************************************************)
InitPipeline ==
    /\ pstate = "Uninitialized"
    /\ camera = None
    /\ yawQ = <<>> /\ pitchQ = <<>> /\ rollQ = <<>>
    /\ smoothed = None
    /\ window = <<>>
    /\ blinkCount = 0 /\ elapsed = 0
    /\ skipped = 0
    /\ snapshot = None
    /\ pc = "idle"
    /\ cur = None
    /\ work = NoWork
    /\ stopRequested = FALSE
    /\ observed = None
    /\ readMidFrame = FALSE
    /\ accepted = 0 /\ completed = 0
    /\ samples = <<>> /\ rawPoses = <<>>
    /\ metricsLog = {}
    /\ pre = None
    /\ lastFrame = None
    /\ pure = NoPure

(***************************************************************************)
(* The web client.  Values of its state.                                   *)
(***************************************************************************)
\* AuthContext: currentUser is null while nobody is signed in
NoUser == "none"

Uid == "u1"

\* InterviewContext: sessionId is null while there is no session
NoSession == 0

\* InterviewContext: interviewAnswers starts as three empty answers
BlankAnswers == <<"", "", "">>

\* SpeechTest: the metrics before any analysis
ZeroMetrics == [fluency |-> 0, fillerWords |-> 0, pace |-> 0, pronunciation |-> 0]

\* Interview: the three questions, by title
questions == <<"Core Concepts", "Problem Solving", "System Design">>

\* Interview: the answers in the text areas when Finish is clicked
answers == <<"an answer", "another answer", "">>

\* Interview: the live metrics shown in the side panel
liveMetrics ==
    [attention |-> 85, eyeContact |-> 78, blinkRate |-> 15,
     emotion |-> "Confident", confidence |-> 82, speakingPace |-> 145]

\* an asynchronous call that has not been made
NoTask == [pc |-> "none"]

\* InterviewContext: the error of saveInterview and completeSession when
\* sessionId is null
NoActiveSession == "No active session"

\* the error of a backend call that fails
BackendError == "backend error"

\* bounds of the client model
MaxRecordings == 1
MaxSeconds == 1
MaxReportLoads == 2
MaxTakes == 3

\* Math.floor(Math.random() * n): every integer from 0 to n - 1
RandomBelow(n) == 0..(n - 1)

(***************************************************************************)
(* SpeechTest.stopRecording: the analysed metrics, from the four random    *)
(* draws u1 < 30, u2 < 10, u3 < 40, u4 < 25.                               *)
(***************************************************************************)
\* the pace computed with offset and range exchanged
NewMetricsPaceSwapped(u1, u2, u3, u4) ==
    [fluency |-> u1 + 70, fillerWords |-> u2 + 2, pace |-> u3 + 40,
     pronunciation |-> u4 + 75]

NewMetrics(u1, u2, u3, u4) ==
    [fluency |-> u1 + 70, fillerWords |-> u2 + 2, pace |-> u3 + 120,
     pronunciation |-> u4 + 75]

\* the result handed to saveSpeechTest
SpeechResult(m, duration) ==
    [fluency |-> m.fluency, fillerWords |-> m.fillerWords, pace |-> m.pace,
     pronunciation |-> m.pronunciation, recordingDuration |-> duration]

(***************************************************************************)
(* Interview.handleNextQuestion: the scores of the finished interview,     *)
(* from the three random draws u[i] < 25 and the speech-test result held   *)
(* by the context (None when there is none).                               *)
(***************************************************************************)
QuestionScore(u) == u + 70

QuestionResults(u) ==
    [i \in 1..Len(questions) |->
        [title |-> questions[i], answer |-> answers[i],
         score |-> QuestionScore(u[i])]]

TechnicalScore(qr) ==
    SumSeq([i \in 1..Len(qr) |-> qr[i].score]) \div Len(qr)

\* the two speech scores added and not halved
CommunicationSum(speech) ==
    IF speech # None THEN speech.fluency + speech.pronunciation
    ELSE liveMetrics.confidence

CommunicationScore(speech) ==
    IF speech # None THEN (speech.fluency + speech.pronunciation) \div 2
    ELSE liveMetrics.confidence

BodyLanguageScore ==
    (liveMetrics.eyeContact + liveMetrics.confidence + liveMetrics.attention) \div 3

OverallScore(t, c, b) == (t + c + b) \div 3

\* the aggregate without its emotion timeline
BodyLanguageWithoutTimeline ==
    [eyeContact |-> liveMetrics.eyeContact,
     avgBlinkRate |-> liveMetrics.blinkRate,
     confidenceCurve |-> liveMetrics.confidence]

BodyLanguage ==
    [eyeContact |-> liveMetrics.eyeContact,
     avgBlinkRate |-> liveMetrics.blinkRate,
     confidenceCurve |-> liveMetrics.confidence,
     emotionTimeline |-> <<"Confident", "Focused", liveMetrics.emotion>>]

FinalResults(u, speech) ==
    LET qr == QuestionResults(u)
        technicalScore == TechnicalScore(qr)
        communicationScore == CommunicationScore(speech)
        bodyLanguageScore == BodyLanguageScore
    IN  [overallScore |-> OverallScore(technicalScore, communicationScore,
                                       bodyLanguageScore),
         technicalScore |-> technicalScore,
         communicationScore |-> communicationScore,
         bodyLanguageScore |-> bodyLanguageScore,
         bodyLanguage |-> BodyLanguage,
         questions |-> qr]

(***************************************************************************)
(* The client after its providers and pages have been constructed.         *)
(***************************************************************************)
InitFront ==
    /\ currentUser = NoUser
    /\ page = "home"
    /\ sessionId = NoSession
    /\ session = None
    /\ isLoading = FALSE
    /\ speechTestResults = None
    /\ interviewAnswers = BlankAnswers
    /\ store = <<>>
    /\ createCalls = 0
    /\ isRecording = FALSE
    /\ recordingTime = 0
    /\ hasRecorded = FALSE
    /\ isSaving = FALSE
    /\ metrics = ZeroMetrics
    /\ intervalRef = 0
    /\ liveIntervals = {}
    /\ recordings = 0
    /\ mountBase = 0
    /\ bgCreate = [i \in 1..MaxRecordings |-> "none"]
    /\ analysis = [i \in 1..MaxRecordings |-> NoTask]
    /\ currentQuestion = 0
    /\ isSubmitting = FALSE
    /\ finish = NoTask
    /\ interviewSave = NoTask
    /\ isLoadingSession = FALSE
    /\ effectDue = FALSE
    /\ reportLoads = <<>>

Init == InitPipeline /\ InitFront

pipelineVars == <<pstate, camera, yawQ, pitchQ, rollQ, smoothed, window,
                  blinkCount, elapsed, skipped, snapshot, pc, cur, work,
                  stopRequested, accepted, completed, samples, rawPoses,
                  metricsLog, pre, lastFrame>>

\* the first frame that leaves Uninitialized: any frame, with or without a face
EntersStreamingOnAnyFrame(f) == TRUE

\* the first valid landmark frame leaves Uninitialized
EntersStreaming(f) == f.face

\* a frame is accepted only between two ticks, and never after a stop signal
AcceptAllowed == pc = "idle" /\ pstate # "Stopped" /\ ~stopRequested

AcceptFrame(f) ==
    /\ AcceptAllowed
    /\ accepted' = accepted + 1
    /\ lastFrame' = f
    /\ IF pstate = "Uninitialized" /\ ~EntersStreaming(f)
       THEN \* nothing to process yet: the frame is dropped
            /\ completed' = completed + 1
            /\ UNCHANGED <<pstate, camera, elapsed, pc, cur, pre>>
       ELSE /\ pstate' = "Streaming"
            /\ camera' = IF camera = None \/ camera # CameraFrom(f)
                         THEN CameraFrom(f) ELSE camera
            /\ elapsed' = elapsed + 1
            /\ pc' = "solve"
            /\ cur' = f
            /\ pre' = [smoothed |-> smoothed, yawQ |-> yawQ, pitchQ |-> pitchQ,
                       rollQ |-> rollQ, window |-> window, skipped |-> skipped]
            /\ UNCHANGED completed
    /\ UNCHANGED <<yawQ, pitchQ, rollQ, smoothed, window, blinkCount, skipped,
                   snapshot, work, stopRequested, observed, readMidFrame, samples, rawPoses,
                   metricsLog, pure, frontVars>>

\* a failed frame recorded as a look-away sample
WindowAfterSkipMarksAway(w) == PushBounded(w, FALSE, attentionWindowSize)

\* a skipped frame leaves the AttentionWindow as it was
WindowAfterSkip(w) == w

SkipFrame ==
    /\ pstate = "Streaming" /\ pc = "solve" /\ SolveFails(cur)
    /\ skipped' = skipped + 1
    /\ window' = WindowAfterSkip(window)
    /\ pc' = "idle" /\ cur' = None /\ work' = NoWork
    /\ completed' = completed + 1
    /\ UNCHANGED <<pstate, camera, yawQ, pitchQ, rollQ, smoothed, blinkCount,
                   elapsed, snapshot, stopRequested, observed, readMidFrame, accepted,
                   samples, rawPoses, metricsLog, pre, lastFrame, pure, frontVars>>

SolvePose ==
    /\ pstate = "Streaming" /\ pc = "solve" /\ ~SolveFails(cur)
    /\ work' = [work EXCEPT !.rotation =
                   [yaw |-> cur.yaw, pitch |-> cur.pitch, roll |-> cur.roll]]
    /\ pc' = "extract"
    /\ UNCHANGED <<pstate, camera, yawQ, pitchQ, rollQ, smoothed, window,
                   blinkCount, elapsed, skipped, snapshot, cur, stopRequested,
                   observed, readMidFrame, accepted, completed, samples, rawPoses,
                   metricsLog, pre, lastFrame, pure, frontVars>>

ExtractEuler ==
    /\ pstate = "Streaming" /\ pc = "extract"
    /\ work' = [work EXCEPT !.pose = work.rotation]
    /\ pc' = "smooth"
    /\ UNCHANGED <<pstate, camera, yawQ, pitchQ, rollQ, smoothed, window,
                   blinkCount, elapsed, skipped, snapshot, cur, stopRequested,
                   observed, readMidFrame, accepted, completed, samples, rawPoses,
                   metricsLog, pre, lastFrame, pure, frontVars>>

SmoothPose ==
    /\ pstate = "Streaming" /\ pc = "smooth"
    /\ yawQ' = PushBounded(yawQ, work.pose.yaw, poseSmoothingWindow)
    /\ pitchQ' = PushBounded(pitchQ, work.pose.pitch, poseSmoothingWindow)
    /\ rollQ' = PushBounded(rollQ, work.pose.roll, poseSmoothingWindow)
    /\ smoothed' = SmoothedOf(yawQ', pitchQ', rollQ')
    /\ rawPoses' = Append(rawPoses, work.pose)
    /\ pc' = "classify"
    /\ UNCHANGED <<pstate, camera, window, blinkCount, elapsed, skipped,
                   snapshot, cur, work, stopRequested, observed, readMidFrame, accepted,
                   completed, samples, metricsLog, pre, lastFrame, pure, frontVars>>

ClassifyGaze ==
    /\ pstate = "Streaming" /\ pc = "classify"
    /\ LET eye == IsEyeContact(smoothed.yaw, smoothed.pitch)
       IN  /\ work' = [work EXCEPT !.eye = eye]
           /\ window' = PushBounded(window, eye, attentionWindowSize)
           /\ samples' = Append(samples, eye)
    /\ pc' = "blink"
    /\ UNCHANGED <<pstate, camera, yawQ, pitchQ, rollQ, smoothed, blinkCount,
                   elapsed, skipped, snapshot, cur, stopRequested, observed, readMidFrame,
                   accepted, completed, rawPoses, metricsLog, pre, lastFrame,
                   pure, frontVars>>

DetectBlink ==
    /\ pstate = "Streaming" /\ pc = "blink"
    /\ LET b == IsBlink(cur.earL, cur.earR)
       IN  /\ work' = [work EXCEPT !.blink = b]
           /\ blinkCount' = IF b THEN blinkCount + 1 ELSE blinkCount
    /\ pc' = "aggregate"
    /\ UNCHANGED <<pstate, camera, yawQ, pitchQ, rollQ, smoothed, window,
                   elapsed, skipped, snapshot, cur, stopRequested, observed, readMidFrame,
                   accepted, completed, samples, rawPoses, metricsLog, pre,
                   lastFrame, pure, frontVars>>

MetricsOf(sm, eye, w, count, frames, blink, label) ==
    [yaw |-> sm.yaw, pitch |-> sm.pitch, roll |-> sm.roll,
     isEyeContact |-> eye,
     attentionScore |-> AttentionScore(w),
     blinkRate |-> BlinkRate(count, frames),
     isBlink |-> blink,
     confidenceScore |-> ConfidenceScore(AttentionScore(w),
                                         BlinkScore(BlinkRate(count, frames)),
                                         EmotionScore(label)),
     emotionLabel |-> label,
     emotionKnown |-> label # "None"]

Aggregate ==
    /\ pstate = "Streaming" /\ pc = "aggregate"
    /\ work' = [work EXCEPT !.metrics =
                   MetricsOf(smoothed, work.eye, window, blinkCount, elapsed,
                             work.blink, cur.emotion)]
    /\ pc' = "publish"
    /\ UNCHANGED <<pstate, camera, yawQ, pitchQ, rollQ, smoothed, window,
                   blinkCount, elapsed, skipped, snapshot, cur, stopRequested,
                   observed, readMidFrame, accepted, completed, samples, rawPoses,
                   metricsLog, pre, lastFrame, pure, frontVars>>

\* the exposed snapshot updated field by field: pose first, scores a tick late
PublishedInPlace(old, m) ==
    IF old = None THEN m
    ELSE [old EXCEPT !.yaw = m.yaw, !.pitch = m.pitch, !.roll = m.roll,
                     !.isEyeContact = m.isEyeContact]

\* copy-on-publish: the exposed snapshot is replaced as a whole
Published(old, m) == m

PublishSnapshot ==
    /\ pstate = "Streaming" /\ pc = "publish"
    /\ snapshot' = Published(snapshot, work.metrics)
    /\ metricsLog' = metricsLog \cup {work.metrics}
    /\ pc' = "idle" /\ cur' = None /\ work' = NoWork
    /\ completed' = completed + 1
    /\ UNCHANGED <<pstate, camera, yawQ, pitchQ, rollQ, smoothed, window,
                   blinkCount, elapsed, skipped, stopRequested, observed, readMidFrame,
                   accepted, samples, rawPoses, pre, lastFrame, pure, frontVars>>

RequestStop ==
    /\ pstate = "Streaming" /\ ~stopRequested
    /\ stopRequested' = TRUE
    /\ UNCHANGED <<pstate, camera, yawQ, pitchQ, rollQ, smoothed, window,
                   blinkCount, elapsed, skipped, snapshot, pc, cur, work,
                   observed, readMidFrame, accepted, completed, samples, rawPoses,
                   metricsLog, pre, lastFrame, pure, frontVars>>

\* a stop request honoured wherever the pipeline happens to be
StopAllowedMidFrame == pstate = "Streaming" /\ stopRequested

\* a stop request is honoured between two frames
StopAllowed == pc = "idle" /\ pstate = "Streaming" /\ stopRequested

\* the window survives the stop
KeptWindow(w) == w

ReleasedWindow(w) == <<>>

HonourStop ==
    /\ StopAllowed
    /\ pstate' = "Stopped"
    /\ yawQ' = <<>> /\ pitchQ' = <<>> /\ rollQ' = <<>>
    /\ smoothed' = None
    /\ window' = ReleasedWindow(window)
    /\ blinkCount' = 0 /\ elapsed' = 0
    /\ samples' = <<>> /\ rawPoses' = <<>>
    /\ UNCHANGED <<camera, skipped, snapshot, pc, cur, work, stopRequested,
                   observed, readMidFrame, accepted, completed, metricsLog, pre, lastFrame,
                   pure, frontVars>>

\* the consumer takes the exposed snapshot, at any moment
ReadSnapshot ==
    /\ observed # snapshot
    /\ observed' = snapshot
    /\ readMidFrame' = (pc # "idle")
    /\ UNCHANGED <<pipelineVars, pure, frontVars>>

ProcessStep ==
    \/ SkipFrame
    \/ SolvePose
    \/ ExtractEuler
    \/ SmoothPose
    \/ ClassifyGaze
    \/ DetectBlink
    \/ Aggregate
    \/ PublishSnapshot

\* a short session with every kind of frame, a caller that may stop it and
\* a consumer that reads the snapshot at any moment
Next ==
    \/ \E f \in FrameInputs : accepted < MaxFrames /\ AcceptFrame(f)
    \/ ProcessStep
    \/ RequestStop
    \/ HonourStop
    \/ ReadSnapshot

Spec == Init /\ [][Next]_vars

\* a long session: the stream may vary over its first FreeFrames frames and
\* then repeats its last frame
NextLong ==
    \/ \E f \in LongInputs :
          /\ accepted < MaxLongFrames
          /\ accepted >= FreeFrames => f = lastFrame
          /\ AcceptFrame(f)
    \/ ProcessStep

SpecLong == Init /\ [][NextLong]_vars

(***************************************************************************)
(* 8 End-to-end scenario: a synthetic session of ScenarioLength frames,    *)
(* the first ScenarioSwitch of them a centered face with EAR 0.30, the     *)
(* rest a face turned to yaw 40 degrees with EAR 0.15.  No frame of it     *)
(* fails, so no frame is skipped.                                          *)
(***************************************************************************)
ScenarioLength == 300

ScenarioSwitch == 150

ScenarioCentered == Centered

ScenarioAway == [Centered EXCEPT !.yaw = 40, !.earL = 15, !.earR = 15]

ScenarioFrame(i) == IF i <= ScenarioSwitch THEN ScenarioCentered ELSE ScenarioAway

NextScenario ==
    \/ accepted < ScenarioLength /\ AcceptFrame(ScenarioFrame(accepted + 1))
    \/ SolvePose
    \/ ExtractEuler
    \/ SmoothPose
    \/ ClassifyGaze
    \/ DetectBlink
    \/ Aggregate
    \/ PublishSnapshot

SpecScenario == Init /\ [][NextScenario]_vars


(***************************************************************************)
(* The pure functions applied to inputs drawn from bounded sets: the gaze  *)
(* classifier on angles in steps of 1/AngleDen degree, the confidence      *)
(* formula on component scores in steps of 1/ScoreDen, and the aggregator  *)
(* on a window and accumulator state.                                      *)
(***************************************************************************)
YawGrid == {Rat(n, AngleDen) : n \in -(MaxYawDeg * AngleDen)..(MaxYawDeg * AngleDen)}

PitchGrid == {Rat(n, AngleDen) : n \in -(MaxPitchDeg * AngleDen)..(MaxPitchDeg * AngleDen)}

ScoreGrid == {Rat(n, ScoreDen) : n \in 0..ScoreDen}

\* elapsed-frame counts: a session's first frames, and seconds into it
PureFrameCounts == {1, 2, 3, 80, 90, 100, 120, 1800}

BoolSeqs(n) == UNION {[1..k -> BOOLEAN] : k \in 1..n}

ApplyGaze ==
    /\ pure = NoPure
    /\ \E y \in YawGrid, p \in PitchGrid :
          pure' = [op |-> "gaze", yaw |-> y, pitch |-> p,
                   out |-> IsEyeContact(y, p)]
    /\ UNCHANGED <<pipelineVars, observed, readMidFrame, frontVars>>

ApplyConfidence ==
    /\ pure = NoPure
    /\ \E a \in ScoreGrid, b \in ScoreGrid, e \in ScoreGrid :
          pure' = [op |-> "confidence", a |-> a, b |-> b, e |-> e,
                   out |-> ConfidenceScore(a, b, e)]
    /\ UNCHANGED <<pipelineVars, observed, readMidFrame, frontVars>>

ApplyAggregate ==
    /\ pure = NoPure
    /\ \E w \in BoolSeqs(MaxPureWindow), frames \in PureFrameCounts,
          label \in Emotions :
          \E count \in 0..(IF frames < MaxPureWindow THEN frames ELSE MaxPureWindow) :
             pure' = [op |-> "aggregate", window |-> w, count |-> count,
                      frames |-> frames, label |-> label,
                      out |-> MetricsOf(SmoothedOf(<<0>>, <<0>>, <<0>>), w[Len(w)],
                                        w, count, frames, FALSE, label)]
    /\ UNCHANGED <<pipelineVars, observed, readMidFrame, frontVars>>

\* the blink detector on every pair of eye aspect ratios up to MaxEar/100
ApplyBlink ==
    /\ pure = NoPure
    /\ \E l \in 0..MaxEar, r \in 0..MaxEar :
          pure' = [op |-> "blink", earL |-> l, earR |-> r,
                   out |-> IsBlink(l, r)]
    /\ UNCHANGED <<pipelineVars, observed, readMidFrame, frontVars>>

NextPure == ApplyGaze \/ ApplyConfidence \/ ApplyAggregate \/ ApplyBlink

SpecPure == Init /\ [][NextPure]_vars

(***************************************************************************)
(* The client's score computations applied to inputs drawn from bounded    *)
(* sets: the analysed speech metrics on every combination of their four    *)
(* random draws; the final scores on every combination of the three        *)
(* question draws with a few speech results, and on every speech result    *)
(* with fluency and pronunciation in 0..SpeechScoreMax with a few          *)
(* question draws.                                                         *)
(***************************************************************************)
\* README, scoring ranges: fluency and pronunciation are scored 0-100
SpeechScoreMax == 100

SpeechWith(f, p) ==
    [fluency |-> f, fillerWords |-> 2, pace |-> 120, pronunciation |-> p,
     recordingDuration |-> 1]

AllDraws == [1..Len(questions) -> RandomBelow(25)]

FewDraws == {<<0, 0, 0>>, <<24, 24, 24>>, <<0, 12, 24>>}

AllSpeech == {SpeechWith(f, p) : f \in 0..SpeechScoreMax, p \in 0..SpeechScoreMax}

FewSpeech == {None, SpeechWith(0, 0), SpeechWith(70, 75), SpeechWith(99, 100)}

ApplySpeechMetrics ==
    /\ pure = NoPure
    /\ \E u1 \in RandomBelow(30), u2 \in RandomBelow(10),
          u3 \in RandomBelow(40), u4 \in RandomBelow(25) :
          pure' = [op |-> "metrics", out |-> NewMetrics(u1, u2, u3, u4)]
    /\ UNCHANGED <<pipelineVars, observed, readMidFrame, frontVars>>

ApplyFinalScores ==
    /\ pure = NoPure
    /\ \E in \in (AllDraws \X FewSpeech) \cup (FewDraws \X AllSpeech) :
          pure' = [op |-> "scores", draws |-> in[1], speech |-> in[2],
                   out |-> FinalResults(in[1], in[2])]
    /\ UNCHANGED <<pipelineVars, observed, readMidFrame, frontVars>>

NextScores == ApplySpeechMetrics \/ ApplyFinalScores

SpecScores == Init /\ [][NextScores]_vars


(***************************************************************************)
(* The web client as a state machine.  An event handler, a timer callback  *)
(* or the continuation of an asynchronous function after an awaited        *)
(* backend call runs to completion as one step.  A handler sees the state  *)
(* of the render it was created in: a value captured when a handler        *)
(* starts (sid below) is what its later continuations use, whatever the    *)
(* context holds by then.  A backend call answers in a later step, with    *)
(* success or failure, in any order with the other calls in flight.        *)
(***************************************************************************)
backVars == <<pipelineVars, observed, readMidFrame, pure>>

ctxVars == <<sessionId, session, isLoading, speechTestResults, interviewAnswers>>

speechVars == <<isRecording, recordingTime, hasRecorded, isSaving, metrics,
                intervalRef, liveIntervals, recordings, mountBase, bgCreate,
                analysis>>

interviewVars == <<currentQuestion, isSubmitting, finish, interviewSave>>

reportVars == <<isLoadingSession, effectDue, reportLoads>>

\* lib/firestore: the document createInterviewSession adds
NewSession(uid) ==
    [userId |-> uid, status |-> "in-progress", speechTest |-> None,
     questions |-> None, liveMetrics |-> None, results |-> None]

\* lib/firestore: getInterviewSession answers the document with its id, or
\* null
GetInterviewSession(id) ==
    IF id \in 1..Len(store)
    THEN [id |-> id, userId |-> store[id].userId, status |-> store[id].status,
          speechTest |-> store[id].speechTest,
          questions |-> store[id].questions,
          liveMetrics |-> store[id].liveMetrics, results |-> store[id].results]
    ELSE None

\* lib/firestore: saveSpeechTestResults
WithSpeechTest(docs, id, r) == [docs EXCEPT ![id].speechTest = r]

\* lib/firestore: completeInterviewSession
Completed(docs, id, final) ==
    [docs EXCEPT ![id].status = "completed", ![id].results = final,
                 ![id].questions = final.questions]

\* InterviewProvider renders again when its state changes, and with every
\* render it hands new function objects (loadSession among them) to the
\* pages; the Report's effect depends on loadSession
DueAfter(rendered) == IF page = "report" /\ rendered THEN TRUE ELSE effectDue

\* a component's own state exists while the component is mounted
Mounted(p) == page = p

\* the timers and callbacks of recording i set the state of the SpeechTest
\* component that made them: they have an effect while that component is
\* the one mounted
OwnerMounted(i) == Mounted("speech") /\ i > mountBase

\* sign-in page
SignIn ==
    /\ page = "home" /\ currentUser = NoUser
    /\ currentUser' = Uid
    /\ UNCHANGED <<backVars, page, ctxVars, store, createCalls, speechVars,
                   interviewVars, reportVars>>

OpenSpeechTest ==
    /\ page = "home"
    /\ page' = "speech"
    /\ UNCHANGED <<backVars, currentUser, ctxVars, store, createCalls,
                   speechVars, interviewVars, reportVars>>

\* SpeechTest.startRecording: "if user is logged in and no session exists"
NeedsSession == currentUser # NoUser /\ sessionId = NoSession

\* SpeechTest.startRecording, with the start of startNewSession
StartRecording ==
    /\ page = "speech" /\ ~isRecording
    /\ recordings < Len(analysis)
    /\ recordings' = recordings + 1
    /\ isRecording' = TRUE
    /\ recordingTime' = 0
    /\ intervalRef' = recordings'
    /\ liveIntervals' = liveIntervals \cup {recordings'}
    /\ IF NeedsSession
       THEN /\ isLoading' = TRUE
            /\ createCalls' = createCalls + 1
            /\ bgCreate' = [bgCreate EXCEPT ![recordings'] = "pending"]
       ELSE UNCHANGED <<isLoading, createCalls, bgCreate>>
    /\ UNCHANGED <<backVars, currentUser, page, sessionId, session,
                   speechTestResults, interviewAnswers, store, hasRecorded,
                   isSaving, metrics, analysis, interviewVars, reportVars,
                   mountBase>>

\* the interval timer's callback
Tick ==
    /\ \E t \in liveIntervals : OwnerMounted(t)
    /\ recordingTime < MaxSeconds
    /\ recordingTime' = recordingTime + 1
    /\ UNCHANGED <<backVars, currentUser, page, ctxVars, store, createCalls,
                   isRecording, hasRecorded, isSaving, metrics, intervalRef,
                   liveIntervals, recordings, bgCreate, analysis,
                   interviewVars, reportVars,
                   mountBase>>

\* startNewSession after createInterviewSession, begun by startRecording
BackgroundCreateResponse(i, ok) ==
    /\ bgCreate[i] = "pending"
    /\ IF ok
       THEN /\ store' = Append(store, NewSession(currentUser))
            /\ sessionId' = Len(store')
            /\ speechTestResults' = None
            /\ interviewAnswers' = BlankAnswers
            /\ bgCreate' = [bgCreate EXCEPT ![i] = "created"]
       ELSE /\ bgCreate' = [bgCreate EXCEPT ![i] = "failed"]
            /\ UNCHANGED <<store, sessionId, speechTestResults, interviewAnswers>>
    /\ isLoading' = FALSE
    /\ effectDue' = DueAfter(ok \/ isLoading)
    /\ UNCHANGED <<backVars, currentUser, page, session, createCalls,
                   isRecording, recordingTime, hasRecorded, isSaving, metrics,
                   intervalRef, liveIntervals, recordings, analysis,
                   interviewVars, isLoadingSession, reportLoads,
                   mountBase>>

\* SpeechTest.stopRecording, up to the setTimeout
StopRecording ==
    /\ page = "speech" /\ isRecording
    /\ isRecording' = FALSE
    /\ liveIntervals' = liveIntervals \ {intervalRef}
    /\ analysis' = [analysis EXCEPT ![recordings] =
                       [pc |-> "timer", sid |-> sessionId,
                        duration |-> recordingTime]]
    /\ UNCHANGED <<backVars, currentUser, page, ctxVars, store, createCalls,
                   recordingTime, hasRecorded, isSaving, metrics, intervalRef,
                   recordings, bgCreate, interviewVars, reportVars,
                   mountBase>>

\* the random draws of one analysis: the lowest and the highest
MetricDraws == {<<0, 0, 0, 0>>, <<29, 9, 39, 24>>}

\* SpeechTest.stopRecording, the setTimeout callback up to its first await:
\* the metrics are shown, and saveSpeechTest starts with the sessionId of
\* the render in which Stop was clicked
AnalysisTimeout(i) ==
    /\ analysis[i].pc = "timer"
    /\ \E u \in MetricDraws :
          LET m == NewMetrics(u[1], u[2], u[3], u[4])
              r == SpeechResult(m, analysis[i].duration)
              sid == analysis[i].sid
          IN  /\ metrics' = IF OwnerMounted(i) THEN m ELSE metrics
              /\ hasRecorded' = IF OwnerMounted(i) THEN TRUE ELSE hasRecorded
              /\ IF currentUser = NoUser
                 THEN /\ analysis' = [analysis EXCEPT ![i] =
                             [pc |-> "done", outcome |-> "analyzed", results |-> r]]
                      /\ UNCHANGED <<isSaving, isLoading, createCalls>>
                 ELSE /\ isSaving' = IF OwnerMounted(i) THEN TRUE ELSE isSaving
                      /\ IF sid = NoSession
                         THEN \* saveSpeechTest calls startNewSession
                              /\ isLoading' = TRUE
                              /\ createCalls' = createCalls + 1
                              /\ analysis' = [analysis EXCEPT ![i] =
                                     [pc |-> "creating", results |-> r]]
                         ELSE \* saveSpeechTest calls saveSpeechTestResults
                              /\ analysis' = [analysis EXCEPT ![i] =
                                     [pc |-> "saving", target |-> sid, results |-> r]]
                              /\ UNCHANGED <<isLoading, createCalls>>
    /\ effectDue' = DueAfter(isLoading' # isLoading)
    /\ UNCHANGED <<backVars, currentUser, page, sessionId, session,
                   speechTestResults, interviewAnswers, store, isRecording,
                   recordingTime, intervalRef, liveIntervals, recordings,
                   bgCreate, interviewVars, isLoadingSession, reportLoads,
                   mountBase>>

\* the spinner left on after a failed save
SavingAfterFailure(ok, saving) == IF ok THEN FALSE ELSE saving

\* SpeechTest.stopRecording, finally block: setIsSaving(false)
SavingAfter(ok, saving) == FALSE

\* saveSpeechTest after its startNewSession: the new session is put into
\* the context and saveSpeechTestResults is called for it; a failure ends
\* the callback in its catch and finally blocks
AnalysisCreateResponse(i, ok) ==
    /\ analysis[i].pc = "creating"
    /\ IF ok
       THEN /\ store' = Append(store, NewSession(currentUser))
            /\ sessionId' = Len(store')
            /\ speechTestResults' = None
            /\ interviewAnswers' = BlankAnswers
            /\ analysis' = [analysis EXCEPT ![i] =
                   [pc |-> "saving", target |-> Len(store'),
                    results |-> analysis[i].results]]
            /\ UNCHANGED isSaving
       ELSE /\ analysis' = [analysis EXCEPT ![i] =
                   [pc |-> "done", outcome |-> "create failed",
                    results |-> analysis[i].results]]
            /\ isSaving' = IF OwnerMounted(i) THEN SavingAfter(FALSE, isSaving)
                                               ELSE isSaving
            /\ UNCHANGED <<store, sessionId, speechTestResults, interviewAnswers>>
    /\ isLoading' = FALSE
    /\ effectDue' = DueAfter(ok \/ isLoading)
    /\ UNCHANGED <<backVars, currentUser, page, session, createCalls,
                   isRecording, recordingTime, hasRecorded, metrics,
                   intervalRef, liveIntervals, recordings, bgCreate,
                   interviewVars, isLoadingSession, reportLoads,
                   mountBase>>

\* saveSpeechTest after saveSpeechTestResults, and the end of the callback
AnalysisSaveResponse(i, ok) ==
    /\ analysis[i].pc = "saving"
    /\ IF ok
       THEN /\ store' = WithSpeechTest(store, analysis[i].target, analysis[i].results)
            /\ speechTestResults' = analysis[i].results
            /\ analysis' = [analysis EXCEPT ![i] =
                   [pc |-> "done", outcome |-> "saved",
                    results |-> analysis[i].results]]
       ELSE /\ analysis' = [analysis EXCEPT ![i] =
                   [pc |-> "done", outcome |-> "save failed",
                    results |-> analysis[i].results]]
            /\ UNCHANGED <<store, speechTestResults>>
    /\ isSaving' = IF OwnerMounted(i) THEN SavingAfter(ok, isSaving) ELSE isSaving
    /\ effectDue' = DueAfter(ok)
    /\ UNCHANGED <<backVars, currentUser, page, sessionId, session, isLoading,
                   interviewAnswers, createCalls, isRecording, recordingTime,
                   hasRecorded, metrics, intervalRef, liveIntervals,
                   recordings, bgCreate, interviewVars, isLoadingSession,
                   reportLoads,
                   mountBase>>

\* SpeechTest: "Continue to Interview Section", shown once hasRecorded
ContinueToInterview ==
    /\ page = "speech" /\ hasRecorded
    /\ page' = "interview"
    /\ currentQuestion' = 0
    /\ isSubmitting' = FALSE
    /\ UNCHANGED <<backVars, currentUser, ctxVars, store, createCalls,
                   speechVars, finish, interviewSave, reportVars>>

\* Interview: the question buttons of the side bar
SelectQuestion(idx) ==
    /\ page = "interview" /\ idx # currentQuestion
    /\ currentQuestion' = idx
    /\ UNCHANGED <<backVars, currentUser, page, ctxVars, store, createCalls,
                   speechVars, isSubmitting, finish, interviewSave,
                   reportVars>>

(***************************************************************************)
(* InterviewContext.loadSession after getInterviewSession: what the        *)
(* context holds once the answer (a document, or None) has been handled.   *)
(***************************************************************************)
\* the document read is dropped
SessionKept(loaded, current) == current

SessionAfterLoad(loaded, current) == IF loaded # None THEN loaded ELSE current

SessionIdAfterLoad(loaded, id, current) == IF loaded # None THEN id ELSE current

SpeechAfterLoad(loaded, current) ==
    IF loaded # None /\ loaded.speechTest # None THEN loaded.speechTest
    ELSE current

AnswersAfterLoad(loaded, current) ==
    IF loaded # None /\ loaded.questions # None
    THEN [i \in 1..Len(loaded.questions) |-> loaded.questions[i].answer]
    ELSE current

\* the report reached only when the results were saved
PageAfterFinishIfSaved(saved) == IF saved THEN "report" ELSE "interview"

\* Interview.handleNextQuestion: navigate("/report") after the try block
PageAfterFinish(saved) == "report"

\* Interview.handleNextQuestion: Next on an earlier question; Finish on the
\* last one, up to the first await of completeSession.  Without a user
\* nothing is submitted; without a session completeSession throws at once.
HandleNextQuestion ==
    /\ page = "interview" /\ ~isSubmitting
    /\ IF currentQuestion < Len(questions) - 1
       THEN /\ currentQuestion' = currentQuestion + 1
            /\ UNCHANGED <<page, isSubmitting, finish>>
       ELSE IF currentUser = NoUser
       THEN /\ finish' = [pc |-> "done", outcome |-> "skipped",
                          question |-> currentQuestion]
            /\ page' = "report"
            /\ UNCHANGED <<currentQuestion, isSubmitting>>
       ELSE \E u \in FewDraws :
               LET final == FinalResults(u, speechTestResults)
               IN  IF sessionId = NoSession
                   THEN /\ finish' = [pc |-> "done", outcome |-> "rejected",
                                      error |-> NoActiveSession,
                                      question |-> currentQuestion,
                                      sid |-> sessionId, final |-> final]
                        /\ page' = PageAfterFinish(FALSE)
                        /\ UNCHANGED <<currentQuestion, isSubmitting>>
                   ELSE /\ finish' = [pc |-> "writing",
                                      question |-> currentQuestion,
                                      sid |-> sessionId, final |-> final]
                        /\ isSubmitting' = TRUE
                        /\ UNCHANGED <<currentQuestion, page>>
    /\ effectDue' = (page' = "report")
    /\ UNCHANGED <<backVars, currentUser, ctxVars, store, createCalls,
                   speechVars, interviewSave, isLoadingSession, reportLoads>>

\* completeSession after completeInterviewSession: loadSession is called
\* for the same id; a failure ends handleNextQuestion in catch and finally
FinishWriteResponse(ok) ==
    /\ finish.pc = "writing"
    /\ IF ok
       THEN /\ store' = Completed(store, finish.sid, finish.final)
            /\ isLoading' = TRUE
            /\ finish' = [finish EXCEPT !.pc = "loading"]
            /\ UNCHANGED <<isSubmitting, page>>
       ELSE /\ finish' = [pc |-> "done", outcome |-> "rejected",
                          error |-> BackendError,
                          question |-> finish.question,
                          sid |-> finish.sid, final |-> finish.final]
            /\ isSubmitting' = FALSE
            /\ page' = PageAfterFinish(FALSE)
            /\ UNCHANGED <<store, isLoading>>
    /\ effectDue' = (page' = "report")
    /\ UNCHANGED <<backVars, currentUser, sessionId, session,
                   speechTestResults, interviewAnswers, createCalls,
                   speechVars, currentQuestion, interviewSave,
                   isLoadingSession, reportLoads>>

\* completeSession after its loadSession, and the end of handleNextQuestion
FinishLoadResponse(ok) ==
    /\ finish.pc = "loading"
    /\ LET loaded == IF ok THEN GetInterviewSession(finish.sid) ELSE None
       IN  /\ session' = SessionAfterLoad(loaded, session)
           /\ sessionId' = SessionIdAfterLoad(loaded, finish.sid, sessionId)
           /\ speechTestResults' = SpeechAfterLoad(loaded, speechTestResults)
           /\ interviewAnswers' = AnswersAfterLoad(loaded, interviewAnswers)
           /\ finish' = [pc |-> "done",
                         outcome |-> IF ok THEN "resolved" ELSE "rejected",
                         question |-> finish.question,
                         error |-> IF ok THEN "none" ELSE BackendError,
                         sid |-> finish.sid, final |-> finish.final,
                         read |-> loaded]
    /\ isLoading' = FALSE
    /\ isSubmitting' = FALSE
    /\ page' = PageAfterFinish(ok)
    /\ effectDue' = (page' = "report")
    /\ UNCHANGED <<backVars, currentUser, store, createCalls, speechVars,
                   currentQuestion, interviewSave, isLoadingSession,
                   reportLoads>>

\* Report, useEffect: when there is a sessionId and no session, the page
\* sets its flag and calls loadSession, which sets isLoading
ReportEffect ==
    /\ page = "report" /\ effectDue
    /\ IF sessionId # NoSession /\ session = None
       THEN /\ Len(reportLoads) < MaxReportLoads
            /\ isLoadingSession' = TRUE
            /\ reportLoads' = Append(reportLoads, sessionId)
            /\ isLoading' = TRUE
            /\ effectDue' = ~isLoading
       ELSE /\ effectDue' = FALSE
            /\ UNCHANGED <<isLoadingSession, reportLoads, isLoading>>
    /\ UNCHANGED <<backVars, currentUser, page, sessionId, session,
                   speechTestResults, interviewAnswers, store, createCalls,
                   speechVars, interviewVars>>

Without(q, j) == [k \in 1..(Len(q) - 1) |-> IF k < j THEN q[k] ELSE q[k + 1]]

\* loadSession after getInterviewSession, called by the Report's effect,
\* and the effect's finally callback
ReportLoadResponse(j, ok) ==
    /\ j \in 1..Len(reportLoads)
    /\ LET id == reportLoads[j]
           loaded == IF ok THEN GetInterviewSession(id) ELSE None
       IN  /\ session' = SessionAfterLoad(loaded, session)
           /\ sessionId' = SessionIdAfterLoad(loaded, id, sessionId)
           /\ speechTestResults' = SpeechAfterLoad(loaded, speechTestResults)
           /\ interviewAnswers' = AnswersAfterLoad(loaded, interviewAnswers)
           /\ effectDue' = DueAfter(loaded # None \/ isLoading)
    /\ isLoading' = FALSE
    /\ isLoadingSession' = FALSE
    /\ reportLoads' = Without(reportLoads, j)
    /\ UNCHANGED <<backVars, currentUser, page, store, createCalls,
                   speechVars, interviewVars>>

(***************************************************************************)
(* Report: the scores shown, "session?.overallScore || 82" and the like.   *)
(* The operator || takes its right side when the left side is undefined    *)
(* (no session, or a session without the field) or is the number 0.        *)
(***************************************************************************)
DefaultOverallScore == 82
DefaultTechnicalScore == 78
DefaultCommunicationScore == 85
DefaultBodyLanguageScore == 80

OrDefault(s, field, default) ==
    IF s = None \/ s.results = None THEN default
    ELSE IF s.results[field] = 0 THEN default
    ELSE s.results[field]

\* the defaults shown whatever the session holds
ReportScoresDefaultsOnly(s) ==
    [overallScore |-> DefaultOverallScore,
     technical |-> DefaultTechnicalScore,
     communication |-> DefaultCommunicationScore,
     bodyLanguage |-> DefaultBodyLanguageScore]

ReportScores(s) ==
    [overallScore |-> OrDefault(s, "overallScore", DefaultOverallScore),
     technical |-> OrDefault(s, "technicalScore", DefaultTechnicalScore),
     communication |-> OrDefault(s, "communicationScore", DefaultCommunicationScore),
     bodyLanguage |-> OrDefault(s, "bodyLanguageScore", DefaultBodyLanguageScore)]

(***************************************************************************)
(* InterviewContext.saveInterview.  No page under src/ calls it; here a    *)
(* consumer of the context calls it from the interview page, with that     *)
(* page's questions and answers and its live metrics.                      *)
(***************************************************************************)
\* the questions with their answers
AnsweredQuestions ==
    [i \in 1..Len(questions) |-> [title |-> questions[i], answer |-> answers[i]]]

\* lib/firestore: saveInterviewResults
Interviewed(docs, id, qs, lm) ==
    [docs EXCEPT ![id].questions = qs, ![id].liveMetrics = lm]

\* saveInterview going on without a session
SaveInterviewAcceptedAlways(sid) == TRUE

\* saveInterview: if (!sessionId) throw new Error("No active session")
SaveInterviewAccepted(sid) == sid # NoSession

\* saveInterview up to its await
SaveInterview ==
    /\ page = "interview" /\ interviewSave.pc # "saving"
    /\ IF SaveInterviewAccepted(sessionId)
       THEN interviewSave' = [pc |-> "saving", sid |-> sessionId]
       ELSE interviewSave' = [pc |-> "done", outcome |-> "rejected",
                              error |-> NoActiveSession, sid |-> sessionId]
    /\ UNCHANGED <<backVars, currentUser, page, ctxVars, store, createCalls,
                   speechVars, currentQuestion, isSubmitting, finish,
                   reportVars>>

\* saveInterview after saveInterviewResults
SaveInterviewResponse(ok) ==
    /\ interviewSave.pc = "saving"
    /\ IF ok
       THEN /\ store' = Interviewed(store, interviewSave.sid,
                                    AnsweredQuestions, liveMetrics)
            /\ interviewSave' = [pc |-> "done", outcome |-> "resolved",
                                 sid |-> interviewSave.sid]
       ELSE /\ interviewSave' = [pc |-> "done", outcome |-> "rejected",
                                 error |-> BackendError,
                                 sid |-> interviewSave.sid]
            /\ UNCHANGED store
    /\ UNCHANGED <<backVars, currentUser, page, ctxVars, createCalls,
                   speechVars, currentQuestion, isSubmitting, finish,
                   reportVars>>

NextFront ==
    \/ SignIn
    \/ OpenSpeechTest
    \/ StartRecording
    \/ Tick
    \/ StopRecording
    \/ \E i \in 1..MaxRecordings, ok \in BOOLEAN : BackgroundCreateResponse(i, ok)
    \/ \E i \in 1..MaxRecordings : AnalysisTimeout(i)
    \/ \E i \in 1..MaxRecordings, ok \in BOOLEAN : AnalysisCreateResponse(i, ok)
    \/ \E i \in 1..MaxRecordings, ok \in BOOLEAN : AnalysisSaveResponse(i, ok)
    \/ ContinueToInterview
    \/ \E idx \in 0..(Len(questions) - 1) : SelectQuestion(idx)
    \/ HandleNextQuestion
    \/ \E ok \in BOOLEAN : FinishWriteResponse(ok)
    \/ \E ok \in BOOLEAN : FinishLoadResponse(ok)
    \/ ReportEffect
    \/ \E j \in 1..MaxReportLoads, ok \in BOOLEAN : ReportLoadResponse(j, ok)

SpecFront == Init /\ [][NextFront]_vars

\* the client with a consumer that calls saveInterview
NextContext ==
    \/ NextFront
    \/ SaveInterview
    \/ \E ok \in BOOLEAN : SaveInterviewResponse(ok)

SpecContext == Init /\ [][NextContext]_vars

(***************************************************************************)
(* The Report page on its own: it is shown to a signed-in user with a      *)
(* sessionId and no session loaded (as after a Finish whose save failed),  *)
(* while the backend holds a document with that id, in one of the states   *)
(* a session document goes through, or holds none with it.  Every read is  *)
(* answered here; the effect runs whenever it is due and every call in     *)
(* flight is answered eventually.                                          *)
(***************************************************************************)
\* a session document as created, with a speech test saved, and completed
ReportDocs ==
    {NewSession(Uid),
     [NewSession(Uid) EXCEPT !.speechTest = SpeechResult(NewMetrics(0, 0, 0, 0), 1)],
     [NewSession(Uid) EXCEPT !.status = "completed",
                             !.results = FinalResults(<<0, 12, 24>>, None),
                             !.questions = QuestionResults(<<0, 12, 24>>)]}

\* the backend holds no, one or two session documents
ReportStores == UNION {[1..n -> ReportDocs] : n \in 0..2}

InitReport ==
    /\ InitPipeline
    /\ currentUser = Uid
    /\ page = "report"
    /\ sessionId \in 1..2
    /\ session = None
    /\ isLoading = FALSE
    /\ speechTestResults \in {None, SpeechResult(NewMetrics(29, 9, 39, 24), 0)}
    /\ interviewAnswers = BlankAnswers
    /\ store \in ReportStores
    /\ createCalls = 1
    /\ isRecording = FALSE
    /\ recordingTime = 0
    /\ hasRecorded = TRUE
    /\ isSaving = FALSE
    /\ metrics = NewMetrics(29, 9, 39, 24)
    /\ intervalRef = 1
    /\ liveIntervals = {}
    /\ recordings = 1
    /\ mountBase = 0
    /\ bgCreate = [i \in 1..MaxRecordings |-> "none"]
    /\ analysis = [i \in 1..MaxRecordings |-> NoTask]
    /\ currentQuestion = Len(questions) - 1
    /\ isSubmitting = FALSE
    /\ finish = NoTask
    /\ interviewSave = NoTask
    /\ isLoadingSession = FALSE
    /\ effectDue = TRUE
    /\ reportLoads = <<>>

ReportLoadAnswered == \E j \in 1..MaxReportLoads : ReportLoadResponse(j, TRUE)

NextReport == ReportEffect \/ ReportLoadAnswered

SpecReport ==
    /\ InitReport
    /\ [][NextReport]_vars
    /\ WF_vars(ReportEffect)
    /\ WF_vars(ReportLoadAnswered)

(***************************************************************************)
(* The speech test taken several times by a visitor who is not signed in   *)
(* (no backend call is made): record, stop, record again, continue to the  *)
(* interview, finish it, and come back from the report to the speech test. *)
(* Leaving a page unmounts its component; coming back mounts a new one,    *)
(* with the state of its useState and useRef calls as constructed.  A      *)
(* timer made with setInterval exists until clearInterval is called for    *)
(* it.                                                                     *)
(***************************************************************************)
\* Report: the button that goes to "/speech-test"
RetakeSpeechTest ==
    /\ page = "report"
    /\ page' = "speech"
    /\ isRecording' = FALSE
    /\ recordingTime' = 0
    /\ hasRecorded' = FALSE
    /\ isSaving' = FALSE
    /\ metrics' = ZeroMetrics
    /\ intervalRef' = 0
    /\ mountBase' = recordings
    /\ isLoadingSession' = FALSE
    /\ effectDue' = FALSE
    /\ UNCHANGED <<backVars, currentUser, ctxVars, store, createCalls,
                   liveIntervals, recordings, bgCreate, analysis,
                   interviewVars, reportLoads>>

InitSpeech ==
    /\ InitPipeline
    /\ currentUser = NoUser
    /\ page = "home"
    /\ sessionId = NoSession
    /\ session = None
    /\ isLoading = FALSE
    /\ speechTestResults = None
    /\ interviewAnswers = BlankAnswers
    /\ store = <<>>
    /\ createCalls = 0
    /\ isRecording = FALSE
    /\ recordingTime = 0
    /\ hasRecorded = FALSE
    /\ isSaving = FALSE
    /\ metrics = ZeroMetrics
    /\ intervalRef = 0
    /\ liveIntervals = {}
    /\ recordings = 0
    /\ mountBase = 0
    /\ bgCreate = [i \in 1..MaxTakes |-> "none"]
    /\ analysis = [i \in 1..MaxTakes |-> NoTask]
    /\ currentQuestion = 0
    /\ isSubmitting = FALSE
    /\ finish = NoTask
    /\ interviewSave = NoTask
    /\ isLoadingSession = FALSE
    /\ effectDue = FALSE
    /\ reportLoads = <<>>

NextSpeech ==
    \/ OpenSpeechTest
    \/ StartRecording
    \/ Tick
    \/ StopRecording
    \/ \E i \in 1..MaxTakes : AnalysisTimeout(i)
    \/ ContinueToInterview
    \/ HandleNextQuestion
    \/ ReportEffect
    \/ RetakeSpeechTest

SpecSpeech == InitSpeech /\ [][NextSpeech]_vars

(***************************************************************************)
(*                               Properties                                *)
(***************************************************************************)

\* C1: while Streaming, the step that ends a frame whose pose solve fails or
\* that has no face leaves SmoothedPose (value and queues) and the
\* AttentionWindow exactly as they were when the frame was accepted, raises
\* the skip counter by exactly 1 and leaves the pipeline in Streaming.
C1_SkippedFrameRetainsState ==
    [][ (pstate = "Streaming" /\ pc = "solve" /\ SolveFails(cur) /\ pc' # pc)
          => /\ smoothed' = smoothed /\ smoothed' = pre.smoothed
             /\ yawQ' = pre.yawQ /\ pitchQ' = pre.pitchQ /\ rollQ' = pre.rollQ
             /\ window' = window /\ window' = pre.window
             /\ skipped' = skipped + 1 /\ skipped' = pre.skipped + 1
             /\ pstate' = "Streaming"
             /\ pc' = "idle" ]_vars

\* a NoFaceDetected frame has just been skipped in mid-stream, after a pose
\* solve failure and with smoothed values and samples present
C1_Witness ==
    /\ pstate = "Streaming" /\ pc = "idle"
    /\ lastFrame = NoFaceDetected
    /\ skipped = 2
    /\ smoothed # None /\ Len(window) >= 2

\* C2: the AttentionWindow never holds more than 150 samples; it is always
\* the most recent min(n, 150) of the n samples inserted so far, in order,
\* so once more than 150 were inserted its length is exactly 150 and the
\* oldest ones are gone.
C2_WindowHoldsLast150 ==
    /\ Len(window) <= 150
    /\ Len(samples) > 150 => Len(window) = 150
    /\ Len(window) = (IF Len(samples) < 150 THEN Len(samples) ELSE 150)
    /\ \A i \in 1..Len(window) :
          window[i] = samples[Len(samples) - Len(window) + i]

\* more than 150 insertions: the sentinel inserted first (eye contact) is
\* no longer in a window that is full of look-away samples
C2_Witness ==
    /\ Len(samples) > 150
    /\ samples[1] = TRUE
    /\ Len(window) = 150
    /\ \A i \in 1..Len(window) : window[i] = FALSE

SumLast(s, k) ==
    LET RECURSIVE Go(_, _)
        Go(i, acc) == IF i > Len(s) THEN acc ELSE Go(i + 1, acc + s[i])
    IN  Go(Len(s) - k + 1, 0)

IsMeanOfLast(r, s, k) == r.num * k = r.den * SumLast(s, k) /\ r.den > 0

\* C3: no smoother queue ever holds more than 5 entries, and once n >= 1
\* estimates have been accepted the output of each channel is the
\* arithmetic mean of its last min(n, 5) raw values.
C3_SmootherIsMeanOfLast5 ==
    LET n == Len(rawPoses)
        k == IF n < 5 THEN n ELSE 5
        yaws == [i \in 1..n |-> rawPoses[i].yaw]
        pitches == [i \in 1..n |-> rawPoses[i].pitch]
        rolls == [i \in 1..n |-> rawPoses[i].roll]
    IN  /\ Len(yawQ) <= 5 /\ Len(pitchQ) <= 5 /\ Len(rollQ) <= 5
        /\ n = 0 => smoothed = None
        /\ n > 0 => /\ smoothed # None
                    /\ Len(yawQ) = k /\ Len(pitchQ) = k /\ Len(rollQ) = k
                    /\ IsMeanOfLast(smoothed.yaw, yaws, k)
                    /\ IsMeanOfLast(smoothed.pitch, pitches, k)
                    /\ IsMeanOfLast(smoothed.roll, rolls, k)

\* seven estimates accepted, the first two of which differ from the last:
\* the queues have evicted twice and the output is a proper fraction
C3_Witness ==
    /\ Len(rawPoses) = 7
    /\ rawPoses[1].yaw # rawPoses[7].yaw
    /\ rawPoses[3].yaw # rawPoses[7].yaw
    /\ Len(pitchQ) = 5
    /\ smoothed.pitch.den = 5

\* C4: the classifier answers true exactly when |yaw| <= 25 and
\* |pitch| <= 20, both inclusive; in particular with pitch 0 it is true for
\* every |yaw| up to 25 and false for every |yaw| above 25.
C4_GazeThresholdsInclusive ==
    pure.op = "gaze" =>
        /\ pure.out <=> (/\ Abs(pure.yaw.num) <= 25 * pure.yaw.den
                         /\ Abs(pure.pitch.num) <= 20 * pure.pitch.den)
        /\ pure.pitch.num = 0 =>
              (pure.out <=> Abs(pure.yaw.num) <= 25 * pure.yaw.den)

\* yaw exactly at the threshold, pitch 0: eye contact
C4_Witness ==
    /\ pure.op = "gaze"
    /\ pure.yaw = [num |-> -25, den |-> 1]
    /\ pure.pitch = [num |-> 0, den |-> 1]
    /\ pure.out = TRUE

IsThirdOfSum(c, a, b, e) ==
    c.num * 3 * a.den * b.den * e.den
        = c.den * (a.num * b.den * e.den + b.num * a.den * e.den
                   + e.num * a.den * b.den)

InUnit(r) == r.den > 0 /\ 0 <= r.num /\ r.num <= r.den

Tenths(k) == [num |-> k, den |-> 10]

SameValue(r, q) == r.num * q.den = q.num * r.den

\* C5: the confidence score is (AttentionScore + BlinkScore + EmotionScore)/3
\* and lies in [0,1]; it is 1 for components 1, 1, 1, 0 for 0, 0, 0 and 0.8
\* for 0.6, 0.8, 1.0; the aggregator's score is that formula applied to the
\* mean of the window, the blink score and the emotion score.
C5_ConfidenceIsMeanOfThree ==
    /\ pure.op = "confidence" =>
          /\ IsThirdOfSum(pure.out, pure.a, pure.b, pure.e)
          /\ InUnit(pure.out)
          /\ (pure.a = RatInt(1) /\ pure.b = RatInt(1) /\ pure.e = RatInt(1))
                => pure.out = [num |-> 1, den |-> 1]
          /\ (pure.a = RatInt(0) /\ pure.b = RatInt(0) /\ pure.e = RatInt(0))
                => pure.out = [num |-> 0, den |-> 1]
          /\ (/\ SameValue(pure.a, Tenths(6))
              /\ SameValue(pure.b, Tenths(8))
              /\ SameValue(pure.e, Tenths(10)))
                => pure.out = [num |-> 4, den |-> 5]
    /\ pure.op = "aggregate" =>
          LET m == pure.out
              att == [num |-> CountTrue(pure.window), den |-> Len(pure.window)]
          IN  /\ SameValue(m.attentionScore, att)
              /\ InUnit(m.attentionScore)
              /\ InUnit(BlinkScore(m.blinkRate))
              /\ InUnit(EmotionScore(m.emotionLabel))
              /\ IsThirdOfSum(m.confidenceScore, att, BlinkScore(m.blinkRate),
                              EmotionScore(m.emotionLabel))
              /\ InUnit(m.confidenceScore)

\* components 0.6, 0.8 and 1.0 give 0.8
C5_Witness ==
    /\ pure.op = "confidence"
    /\ SameValue(pure.a, Tenths(6))
    /\ SameValue(pure.b, Tenths(8))
    /\ SameValue(pure.e, Tenths(10))
    /\ SameValue(pure.out, Tenths(8))

\* C6: the pipeline's state only moves Uninitialized -> Streaming -> Stopped.
\* It leaves Uninitialized only by accepting a frame with landmarks, the
\* first such frame (every frame accepted before it had none), and builds
\* the CameraModel from that frame's resolution; it leaves Streaming only to
\* Stopped and only on a stop signal; it never leaves Stopped.
C6_PipelineStateOrder ==
    /\ [](pstate = "Uninitialized" =>
             /\ camera = None
             /\ lastFrame = None \/ ~lastFrame.face)
    /\ [][ pstate' # pstate =>
             \/ /\ pstate = "Uninitialized" /\ pstate' = "Streaming"
                /\ accepted' = accepted + 1
                /\ cur' = lastFrame' /\ cur'.face
                /\ camera' = [width |-> cur'.width, height |-> cur'.height]
             \/ /\ pstate = "Streaming" /\ pstate' = "Stopped"
                /\ stopRequested ]_vars

\* a session whose first frame had no face, whose second was processed and
\* which was then stopped
C6_Witness ==
    /\ pstate = "Stopped"
    /\ accepted = 2 /\ completed = 2 /\ skipped = 0
    /\ snapshot # None
    /\ camera = [width |-> 1280, height |-> 720]

\* C7: in Stopped the per-session state is released: the three smoother
\* queues and the smoothed pose, the AttentionWindow and both blink
\* accumulators are empty or zero, whatever was processed before.
C7_StoppedReleasesSessionState ==
    pstate = "Stopped" =>
        /\ yawQ = <<>> /\ pitchQ = <<>> /\ rollQ = <<>>
        /\ smoothed = None
        /\ window = <<>>
        /\ blinkCount = 0 /\ elapsed = 0

\* stopped after frames were processed (a blink among them) and skipped
C7_Witness ==
    /\ pstate = "Stopped"
    /\ completed >= 4 /\ skipped >= 1
    /\ snapshot # None /\ snapshot.isBlink
    /\ Cardinality(metricsLog) >= 3

PipelineOrder ==
    {<<"idle", "solve">>, <<"solve", "extract">>, <<"solve", "idle">>,
     <<"extract", "smooth">>, <<"smooth", "classify">>,
     <<"classify", "blink">>, <<"blink", "aggregate">>,
     <<"aggregate", "publish">>, <<"publish", "idle">>}

\* C8: frames are processed one at a time.  At most one frame is in flight,
\* and one is in flight exactly while the pipeline is not idle; the steps of
\* a tick follow each other in order; a frame is accepted only when the
\* previous tick has ended; a stop takes effect only between two frames.
C8_OneFrameAtATime ==
    /\ [](/\ accepted - completed \in {0, 1}
          /\ pc = "idle" <=> accepted = completed
          /\ pc = "idle" <=> cur = None)
    /\ [][ /\ pc' # pc => <<pc, pc'>> \in PipelineOrder
           /\ accepted' # accepted => pc = "idle" /\ accepted = completed
           /\ (pstate' = "Stopped" /\ pstate # "Stopped") =>
                 /\ pc = "idle" /\ pc' = "idle"
                 /\ accepted = completed ]_vars

\* a stop was requested in the middle of a tick and has not taken effect
C8_Witness ==
    /\ stopRequested /\ pstate = "Streaming"
    /\ pc = "smooth"
    /\ accepted = 3

\* C9: whatever the consumer reads, at any moment, is the complete set of
\* metrics of one fully processed frame; so is the exposed snapshot itself.
C9_SnapshotNeverTorn ==
    /\ observed # None => observed \in metricsLog
    /\ snapshot # None => snapshot \in metricsLog

\* the consumer read in the middle of a tick, after two different snapshots
\* had been published, while the pipeline holds newer values
C9_Witness ==
    /\ observed # None /\ readMidFrame
    /\ Cardinality(metricsLog) >= 2
    /\ pc = "publish" /\ work.metrics # observed
    /\ observed = snapshot

ConstantRun(s) ==
    LET RECURSIVE Go(_)
        Go(i) == IF i >= 1 /\ s[i] = s[Len(s)] THEN Go(i - 1) ELSE Len(s) - i
    IN  IF s = <<>> THEN 0 ELSE Go(Len(s))

\* C10: once the last 5 or more accepted PoseEstimates are identical, the
\* smoothed pose is exactly that value, and it stays so for as long as the
\* stream keeps carrying it (in particular for a stream that carries one
\* value throughout).
C10_ConstantStreamConverges ==
    ConstantRun(rawPoses) >= 5 =>
        LET v == rawPoses[Len(rawPoses)]
        IN  smoothed = [yaw |-> [num |-> v.yaw, den |-> 1],
                        pitch |-> [num |-> v.pitch, den |-> 1],
                        roll |-> [num |-> v.roll, den |-> 1]]

\* a stream that changed value and then carried the same estimate 100 times
C10_Witness ==
    /\ Len(rawPoses) > 100
    /\ ConstantRun(rawPoses) = 100
    /\ smoothed.yaw = [num |-> 40, den |-> 1]

\* C11: isBlink is true exactly when the average of the left-eye and the
\* right-eye EAR is strictly below 0.20 (EAR in hundredths: the sum of the
\* two is below 40); an average of exactly 0.20 is not a blink.
C11_BlinkIffAverageBelowThreshold ==
    pure.op = "blink" =>
        /\ pure.out <=> (pure.earL + pure.earR < 2 * 20)
        /\ pure.earL + pure.earR = 2 * 20 => ~pure.out

\* two different ratios, 0.19 and 0.21, whose average is exactly 0.20
C11_Witness ==
    /\ pure.op = "blink"
    /\ pure.earL = 19 /\ pure.earR = 21
    /\ pure.out = FALSE

\* the snapshot of frame n has been published and frame n + 1 not yet accepted
PublishedFrame(n) == pc = "idle" /\ completed = n /\ snapshot # None

C14_PersistedScoresWithin0To100 ==
    (/\ pure.op = "scores"
     /\ pure.speech # None =>
           /\ pure.speech.fluency \in 0..100
           /\ pure.speech.pronunciation \in 0..100)
    => /\ pure.out.overallScore \in 0..100
       /\ pure.out.technicalScore \in 0..100
       /\ pure.out.communicationScore \in 0..100
       /\ pure.out.bodyLanguageScore \in 0..100
       /\ \A i \in 1..Len(pure.out.questions) :
             pure.out.questions[i].score \in 0..100

\* the highest question scores with a speech result of 100 and 100
C14_Witness ==
    /\ pure.op = "scores"
    /\ pure.draws = <<24, 24, 24>>
    /\ pure.speech # None
    /\ pure.speech.fluency = 100 /\ pure.speech.pronunciation = 100
    /\ pure.out.technicalScore = 94
    /\ pure.out.communicationScore = 100
    /\ pure.out.bodyLanguageScore = 81
    /\ pure.out.overallScore = 91

\* C15: the speech metrics produced by stopRecording lie within the
\* documented scoring ranges: fluency and pronunciation within 0..100,
\* speaking pace within 80..200 words per minute, filler words at least 0.
C15_SpeechMetricsWithinRanges ==
    pure.op = "metrics" =>
        /\ pure.out.fluency \in 0..100
        /\ pure.out.pronunciation \in 0..100
        /\ pure.out.pace \in 80..200
        /\ pure.out.fillerWords >= 0

\* the highest draws: fluency 99, 11 filler words, pace 159, pronunciation 99
C15_Witness ==
    /\ pure.op = "metrics"
    /\ pure.out = [fluency |-> 99, fillerWords |-> 11, pace |-> 159,
                   pronunciation |-> 99]

\* the body-language part of a session-level aggregate: the four fields,
\* with the interview page's values, the timeline a sequence of three labels
IsBodyLanguageAggregate(b) ==
    /\ DOMAIN b = {"eyeContact", "avgBlinkRate", "confidenceCurve", "emotionTimeline"}
    /\ b.eyeContact = 78
    /\ b.avgBlinkRate = 15
    /\ b.confidenceCurve = 82
    /\ b.emotionTimeline = <<"Confident", "Focused", "Confident">>

\* C13: when a signed-in user with an active session finishes the
\* interview, the aggregate handed to completeInterviewSession, and the
\* one the backend then holds, carries the four body-language fields: the
\* eye-contact percentage, the average blink rate, a confidence summary
\* value and an emotion timeline that is an ordered sequence of labels.
C13_AggregateCarriesBodyLanguage ==
    /\ finish.pc \in {"writing", "loading"} =>
          /\ currentUser # NoUser /\ finish.sid # NoSession
          /\ IsBodyLanguageAggregate(finish.final.bodyLanguage)
    /\ \A id \in 1..Len(store) :
          store[id].results # None =>
              /\ store[id].status = "completed"
              /\ IsBodyLanguageAggregate(store[id].results.bodyLanguage)

\* the results of a finished interview have been written by the backend
C13_Witness ==
    /\ finish.pc = "loading"
    /\ store[finish.sid].status = "completed"
    /\ store[finish.sid].results = finish.final
    /\ Len(store[finish.sid].results.bodyLanguage.emotionTimeline) = 3

\* some createInterviewSession has failed
SomeCreateFailed ==
    \E i \in 1..MaxRecordings :
        \/ bgCreate[i] = "failed"
        \/ analysis[i].pc = "done" /\ analysis[i].outcome = "create failed"

\* C16: for a signed-in user who starts with no session, one complete
\* recording (startRecording, stopRecording, the delayed saveSpeechTest)
\* calls createInterviewSession at most once, in whatever order the
\* backend's answers arrive; stated here for the runs in which no call of
\* createInterviewSession fails.
C16_OneCreatePerRecording ==
    (recordings <= 1 /\ ~SomeCreateFailed) => createCalls <= 1

\* C17: shown with a sessionId and no session, the Report page loads that
\* session and the loading comes to an end: from some moment on no
\* loadSession call is in flight, none is about to be made, and
\* isLoadingSession is false, whether or not the backend has the session.
C17_ReportLoadingTerminates ==
    <>[](reportLoads = <<>> /\ ~effectDue /\ ~isLoadingSession)

\* C18: a click on Finish (handleNextQuestion on the last question) ends
\* with the report shown and isSubmitting false, whether completeSession
\* resolved, was rejected (no active session, or the backend failed on the
\* write or on the read) or was skipped because nobody is signed in; until
\* it has ended the interview page stays, submitting.  A click on Next on
\* an earlier question neither navigates nor calls completeSession: the
\* report is reached, and completeSession called, from the last question
\* only.
C18_FinishAlwaysNavigates ==
    /\ finish.pc = "done" =>
          /\ finish.outcome \in {"resolved", "rejected", "skipped"}
          /\ page = "report" /\ ~isSubmitting
          /\ finish.outcome = "skipped" <=> currentUser = NoUser
    /\ finish.pc \in {"writing", "loading"} =>
          page = "interview" /\ isSubmitting /\ currentUser # NoUser
    /\ finish # NoTask => finish.question = Len(questions) - 1
    /\ page = "report" => finish.pc = "done"
    /\ finish = NoTask => ~isSubmitting /\ page # "report"

\* the backend has failed on the write of the results of an active session
C18_Witness ==
    /\ finish.pc = "done" /\ finish.outcome = "rejected"
    /\ finish.sid # NoSession
    /\ store[finish.sid].status = "in-progress"
    /\ page = "report" /\ ~isSubmitting

\* C19: when completeSession has resolved, the final results were written
\* for its sessionId before the session was read back (the document read
\* is completed and carries exactly these results), and the context's
\* session is the document read back for that sessionId.
C19_SessionReflectsCompletedResults ==
    (finish.pc = "done" /\ finish.outcome = "resolved") =>
        /\ finish.sid # NoSession
        /\ finish.read # None
        /\ finish.read.status = "completed"
        /\ finish.read.results = finish.final
        /\ store[finish.sid].results = finish.final
        /\ session = finish.read

\* completeSession has resolved for a session that has its speech test
C19_Witness ==
    /\ finish.pc = "done" /\ finish.outcome = "resolved"
    /\ session # None /\ session.status = "completed"
    /\ session.speechTest # None
    /\ session.results.overallScore = finish.final.overallScore

\* a save of speech-test results is in flight
SomeSaveInFlight ==
    \E k \in 1..MaxRecordings : analysis[k].pc \in {"creating", "saving"}

\* C20: after stopRecording the analysed metrics are shown and hasRecorded
\* is true even when saving them fails: once a saveSpeechTest has failed
\* (in creating the session or in saving the results), the page has
\* hasRecorded true, shows analysed metrics, and has isSaving false unless
\* another save is still in flight, so that the user can continue.
C20_FailedSaveLeavesResultsShown ==
    \A i \in 1..MaxRecordings :
        (/\ Mounted("speech")
         /\ analysis[i].pc = "done"
         /\ analysis[i].outcome \in {"create failed", "save failed"})
        => /\ hasRecorded
           /\ \E k \in 1..MaxRecordings :
                 /\ analysis[k].pc \in {"creating", "saving", "done"}
                 /\ SpeechResult(metrics, analysis[k].results.recordingDuration)
                       = analysis[k].results
           /\ isSaving => SomeSaveInFlight
           /\ ENABLED ContinueToInterview

\* the save of the first recording's results has failed
C20_Witness ==
    /\ Mounted("speech")
    /\ analysis[1].pc = "done" /\ analysis[1].outcome = "save failed"
    /\ hasRecorded /\ ~isSaving
    /\ metrics # ZeroMetrics
    /\ speechTestResults = None


C22_SessionIsCurrentSession == session # None => session.id = sessionId

\* a session creation or a save of speech-test results is awaiting its answer
SpeechCallsPending ==
    \E i \in 1..MaxRecordings :
        bgCreate[i] = "pending" \/ analysis[i].pc \in {"creating", "saving"}

\* C23: once all pending session creations and saves of a speech test have
\* resolved, the session the speech-test results were written to in the
\* backend is the session identified by the context's sessionId.
C23_SpeechTestInCurrentSession ==
    ~SpeechCallsPending =>
        \A k \in 1..Len(store) : store[k].speechTest # None => k = sessionId


\* C24: a session creation that startRecording began before a save of
\* speech-test results does not reset speechTestResults when it resolves
\* after that save has stored them: the stored results stay.
C24_SavedResultsStay ==
    [][ \A i \in 1..MaxRecordings :
           (/\ bgCreate[i] = "pending" /\ bgCreate'[i] = "created"
            /\ \E k \in i..MaxRecordings :
                  /\ analysis[k].pc = "done" /\ analysis[k].outcome = "saved"
                  /\ speechTestResults = analysis[k].results)
           => speechTestResults' = speechTestResults ]_vars

\* the startNewSession and loadSession calls awaiting their backend answer
PendingLoads ==
    Cardinality({i \in 1..MaxRecordings : bgCreate[i] = "pending"})
    + Cardinality({i \in 1..MaxRecordings : analysis[i].pc = "creating"})
    + (IF finish.pc = "loading" THEN 1 ELSE 0)
    + Len(reportLoads)

\* C25: isLoading is true whenever at least one startNewSession or
\* loadSession call is awaiting its backend response, and false when none
\* is.
C25_LoadingWhileCallsPending == isLoading <=> PendingLoads > 0

\* the answers of a loaded session's questions
AnswersOf(doc) ==
    [i \in 1..Len(doc.questions) |-> doc.questions[i].answer]

\* C27: when a loadSession resolves with a session that exists (the one
\* completeSession makes, or one made by the Report), speechTestResults is
\* that session's speech test (none when it has none) and interviewAnswers
\* are the answers of its questions when it has questions.
C27_LoadedSessionReplacesData ==
    [][ /\ (finish.pc = "loading" /\ finish'.pc = "done" /\ finish'.read # None)
           => /\ speechTestResults' = finish'.read.speechTest
              /\ finish'.read.questions # None
                    => interviewAnswers' = AnswersOf(finish'.read)
        /\ (Len(reportLoads') < Len(reportLoads) /\ session' # session)
           => /\ speechTestResults' = session'.speechTest
              /\ session'.questions # None
                    => interviewAnswers' = AnswersOf(session') ]_vars


\* C26: saveInterview and completeSession called while sessionId is null
\* fail with the error "No active session", make no backend call (nothing
\* is left in flight, the backend's documents are as before) and leave
\* sessionId, session, speechTestResults and interviewAnswers unchanged.
C26_NoSessionCallsRejected ==
    [][ /\ (/\ interviewSave.pc # "saving" /\ interviewSave' # interviewSave
            /\ sessionId = NoSession)
           => /\ interviewSave'.pc = "done"
              /\ interviewSave'.outcome = "rejected"
              /\ interviewSave'.error = "No active session"
              /\ store' = store /\ createCalls' = createCalls
              /\ ctxVars' = ctxVars
        /\ (/\ finish = NoTask /\ finish' # NoTask /\ currentUser # NoUser
            /\ sessionId = NoSession)
           => /\ finish'.pc = "done"
              /\ finish'.outcome = "rejected"
              /\ finish'.error = "No active session"
              /\ store' = store /\ createCalls' = createCalls
              /\ ctxVars' = ctxVars ]_vars

\* a signed-in user whose session could not be created has had both calls
\* rejected
C26_Witness ==
    /\ currentUser # NoUser /\ sessionId = NoSession
    /\ interviewSave.pc = "done" /\ interviewSave.outcome = "rejected"
    /\ interviewSave.error = NoActiveSession
    /\ finish.pc = "done" /\ finish.outcome = "rejected"
    /\ finish.error = NoActiveSession
    /\ session = None /\ interviewAnswers = BlankAnswers


\* the interval timers made by the SpeechTest component that is mounted
OwnTimers == {t \in liveIntervals : OwnerMounted(t)}

\* C28: in the speech test at most one recording timer exists at any time,
\* and recordingTime advances (a timer's callback raises it) only while
\* isRecording is true.
C28_OneTimerTicksWhileRecording ==
    /\ Cardinality(liveIntervals) <= 1
    /\ ENABLED Tick => isRecording

\* within one mounted SpeechTest component: at most one of its own timers
\* exists, and only while isRecording
OneOwnTimerWhileRecording ==
    /\ Cardinality(OwnTimers) <= 1
    /\ OwnTimers # {} <=> (Mounted("speech") /\ isRecording)
    /\ ENABLED Tick => isRecording

==========================================================================
